---- MODULE Spec2Model ----
(***************************************************************************)
(* Model of the chunk-processing pipeline of parse_gemini.py: the file     *)
(* cache, the rate limiter, the retry loop of                              *)
(* GeminiParser.process_single_chunk and the batch loop of                 *)
(* parse_with_gemini.                                                      *)
(*                                                                         *)
(* Texts are sequences of tokens.  A token is either one character class   *)
(* (a space) or a phrase that the code searches for as a unit.             *)
(***************************************************************************)
EXTENDS Integers, Sequences, FiniteSets, TLC

VARIABLES
    now,            \* the wall clock, in seconds (time.time(), datetime.now())
    cache,          \* the cache directory: cache key -> file
    parser,         \* the GeminiParser object in use
    pc,             \* position of the single thread of control
    caller,         \* who called process_single_chunk: "run" or "direct"
    dom_chunks, parse_description, progress_callback,  \* arguments of parse_with_gemini
    i,              \* loop index of parse_with_gemini (1-based, 0 before the loop)
    parsed_results, api_calls_made, cache_hits,        \* locals of parse_with_gemini
    chunk, max_retries, attempt, result,               \* locals of process_single_chunk
    ret,            \* what the last top-level call gave back to its caller
    psc,            \* observation of the current/last process_single_chunk call
    run,            \* observation of the current/last parse_with_gemini call
    calls,          \* number of top-level calls started in this behaviour
    ticks,          \* number of idle periods in this behaviour
    faults,         \* number of environment faults this behaviour may still inject
    stored,         \* history: cache key -> the text of the last successful cache write
    cacheop,        \* observation of the last direct call of a cache method
    limiter,        \* history: the last two _enforce_rate_limit calls on the parser
    scraped         \* observation of the last call of a function of scrape.py

vars == <<now, cache, parser, pc, caller, dom_chunks, parse_description,
          progress_callback, i, parsed_results, api_calls_made, cache_hits,
          chunk, max_retries, attempt, result, ret, psc, run, calls, ticks,
          faults, stored, cacheop, limiter, scraped>>

(***************************************************************************)
(* Bounds of the model.                                                    *)
(***************************************************************************)
MaxChunks == 3          \* longest chunk list passed to parse_with_gemini
MaxRetriesArg == 4      \* largest max_retries passed to process_single_chunk
MaxCalls == 2           \* direct calls of process_single_chunk per behaviour
MaxFaults == 4          \* environment faults (API errors, failed writes) per behaviour
MaxTicks == 1           \* idle periods of one cache duration per behaviour
T0 == 1000000           \* the clock at the start of the behaviour
MaxLimiterCalls == 4    \* direct calls of _enforce_rate_limit per behaviour
MaxCacheOps == 3        \* direct calls of cache methods per behaviour
MaxCacheFaults == 1     \* failed reads and writes among the direct cache calls
MaxElapses == 3         \* periods of time between direct cache calls per behaviour

(***************************************************************************)
(* Program constants.                                                      *)
(***************************************************************************)
CacheDurationHours == 24
DefaultRateLimitDelay == 4
RunRateLimitDelay == 5
DefaultMaxRetries == 3
QuotaBaseWait == 60
QuotaMaxWait == 300
TransientWait == 5
DefaultOlderThanHours == 48

(***************************************************************************)
(* Tokens and texts.                                                       *)
(***************************************************************************)
Cross == "<X>"
MaxRetriesPhrase == "Max retries reached"
CacheHitPhrase == "Cache HIT"
NoInfoPhrase == "no relevant information found"

IsSpace(tok) == tok \in {" ", "\n"}

\* str.lower(), token by token
LowerTok(tok) ==
    CASE tok = "Quota" -> "quota"
      [] tok = "No Relevant Information Found" -> NoInfoPhrase
      [] OTHER -> tok

Lower(s) == [k \in 1..Len(s) |-> LowerTok(s[k])]

\* needle in s
Contains(s, needle) == \E k \in 1..Len(s) : s[k] = needle

\* s.startswith(prefix)
StartsWith(s, prefix) == Len(s) > 0 /\ s[1] = prefix

RECURSIVE LStrip(_)
LStrip(s) == IF s # <<>> /\ IsSpace(Head(s)) THEN LStrip(Tail(s)) ELSE s

\* mutant: the trailing whitespace stays
RStrip_Keep(s) == s

RECURSIVE RStrip(_)
RStrip(s) ==
    IF s # <<>> /\ IsSpace(s[Len(s)]) THEN RStrip(SubSeq(s, 1, Len(s) - 1)) ELSE s

\* mutant: only the leading whitespace is removed
Strip_LeftOnly(s) == LStrip(s)

\* str.strip()
Strip(s) == RStrip(LStrip(s))

\* mutant: every text counts as non-empty
Truthy_Always(s) == TRUE

\* truth value of a str
Truthy(s) == s # <<>>

(***************************************************************************)
(* Inputs: chunks, instructions, API responses and API error messages.     *)
(***************************************************************************)
Chunks == {<<"A">>, <<"B">>}
Instructions == {<<"q">>}

Responses ==
    { <<>>,                         \* empty text
      <<" ">>,                      \* whitespace only
      <<" ", "r", "\n">>,           \* padded text
      <<"s">> }                     \* plain text

QuotaErrors == { <<"429", " ", "Too Many Requests">>, <<"Quota", " ", "exceeded">> }
OtherErrors == { <<"timeout">> }
ErrorMsgs == QuotaErrors \cup OtherErrors

RunResponses == { <<>>, <<" ", "r", "\n">> }

ApiDurations == {1}

\* the max_retries a caller passes: none, the default, and one that lets the
\* backoff reach its cap
RetryArgs == {0, DefaultMaxRetries, MaxRetriesArg}

RECURSIVE SeqsUpTo(_, _)
SeqsUpTo(S, n) ==
    IF n = 0 THEN {<<>>}
    ELSE LET shorter == SeqsUpTo(S, n - 1)
         IN  shorter \cup {Append(s, x) : s \in {t \in shorter : Len(t) = n - 1}, x \in S}

\* the chunk lists of a run (the chunks are interchangeable: a list starts with A)
ChunkLists == {s \in SeqsUpTo(Chunks, MaxChunks) : s = <<>> \/ s[1] = <<"A">>}

(***************************************************************************)
(* Cache Store.                                                            *)
(***************************************************************************)
\* _get_cache_key: the digest of content|parse_description; the digest is
\* taken as injective, so the key is the byte string it is fed
_get_cache_key(content, description) == content \o <<"|">> \o description

Keys == {_get_cache_key(c, d) : c \in Chunks, d \in Instructions}

\* a file of the cache directory: the entry it holds, the time of its last
\* change (ctime) and the time of its creation (btime)
NoFile == [st |-> "absent", timestamp |-> 0, result |-> <<>>, ctime |-> 0, btime |-> 0]
CorruptFile(t) == [st |-> "corrupt", timestamp |-> 0, result |-> <<>>, ctime |-> t, btime |-> t]
EntryFile(t, text) == [st |-> "ok", timestamp |-> t, result |-> text, ctime |-> t, btime |-> t]

\* damaged files: the file cannot be read, is not JSON, has no 'timestamp' or
\* one that is no ISO date, has a good timestamp and no 'result', or has a good
\* timestamp and a 'result' that is not a string
UnreadableKinds == {"corrupt", "unreadable", "invalid_json", "no_timestamp", "bad_timestamp"}
DamagedKinds == (UnreadableKinds \ {"corrupt"}) \cup {"no_result", "bad_result"}
NotAString == "<123>"
DamagedFile(kind, t) ==
    [st |-> kind,
     timestamp |-> IF kind \in {"no_result", "bad_result"} THEN t ELSE 0,
     result |-> IF kind = "bad_result" THEN <<NotAString>> ELSE <<>>,
     ctime |-> t, btime |-> t]

\* open(cache_path, 'w') on the file old: an existing file is truncated and
\* keeps its creation time
Written(old, new) == [new EXCEPT !.btime = IF old.st = "absent" THEN @ ELSE old.btime]

cache_duration == CacheDurationHours * 3600

\* mutant: the age test is turned around
_is_cache_valid_Reversed(file, t) ==
    IF file.st = "absent" THEN FALSE
    ELSE IF file.st = "corrupt" THEN FALSE
    ELSE t - file.timestamp > cache_duration

\* _is_cache_valid
_is_cache_valid(file, t) ==
    IF file.st = "absent" THEN FALSE
    ELSE IF file.st \in UnreadableKinds THEN FALSE
    ELSE t - file.timestamp < cache_duration

None == [some |-> FALSE, val |-> <<>>]
Some(text) == [some |-> TRUE, val |-> text]

\* _load_from_cache: cached_data['result'] of a valid file, whatever it is;
\* without that field the KeyError is caught and None is returned
_load_from_cache(c, key, t) ==
    IF _is_cache_valid(c[key], t) /\ c[key].st # "no_result"
    THEN Some(c[key].result)
    ELSE None

WriteOutcomes == {"ok", "open_fails", "dump_fails"}

\* mutant: an existing entry is not overwritten
_save_to_cache_KeepFirst(c, key, text, t, w) ==
    CASE w = "ok" -> IF c[key].st = "ok" THEN c ELSE [c EXCEPT ![key] = Written(@, EntryFile(t, text))]
      [] w = "open_fails" -> c
      [] w = "dump_fails" -> [c EXCEPT ![key] = Written(@, CorruptFile(t))]

\* _save_to_cache: the file after the write; a failed open leaves the file as
\* it was, a failed dump leaves a truncated file
_save_to_cache(c, key, text, t, w) ==
    CASE w = "ok" -> [c EXCEPT ![key] = Written(@, EntryFile(t, text))]
      [] w = "open_fails" -> c
      [] w = "dump_fails" -> [c EXCEPT ![key] = Written(@, CorruptFile(t))]

\* os.path.getctime: the time of the last metadata change on Unix, the
\* creation time on Windows
Platforms == {"unix", "windows"}
getctime(file, platform) == IF platform = "windows" THEN file.btime ELSE file.ctime

\* clear_old_cache: the directory after the sweep at time t
clear_old_cache(c, t, older_than_hours, platform) ==
    [k \in DOMAIN c |->
        IF c[k].st # "absent" /\ getctime(c[k], platform) < t - older_than_hours * 3600
        THEN NoFile ELSE c[k]]

\* the periods a caller lets pass between two cache calls
Elapses == {1, cache_duration - 1, cache_duration}

(***************************************************************************)
(* Rate Limiter.                                                           *)
(***************************************************************************)
\* mutant: the sleep is one second short
RateLimitSleep_Short(p, t) ==
    LET time_since_last_call == t - p.last_api_call
    IN  IF time_since_last_call < p.rate_limit_delay - 1
        THEN p.rate_limit_delay - 1 - time_since_last_call
        ELSE 0

\* mutant: the limiter never sleeps
RateLimitSleep_Never(p, t) == 0

\* the time _enforce_rate_limit sleeps
RateLimitSleep(p, t) ==
    LET time_since_last_call == t - p.last_api_call
    IN  IF time_since_last_call < p.rate_limit_delay
        THEN p.rate_limit_delay - time_since_last_call
        ELSE 0

\* the seconds a caller lets pass between the return of one call of
\* _enforce_rate_limit and the start of the next
CallGaps == {0, 1, 2, DefaultRateLimitDelay - 1, DefaultRateLimitDelay, DefaultRateLimitDelay + 1}

(***************************************************************************)
(* Retry/Backoff.                                                          *)
(***************************************************************************)
RECURSIVE Pow2(_)
Pow2(n) == IF n = 0 THEN 1 ELSE 2 * Pow2(n - 1)

Min(a, b) == IF a < b THEN a ELSE b

\* mutant: the test for "quota" is case sensitive
IsQuotaError_CaseSensitive(error_msg) ==
    Contains(error_msg, "429") \/ Contains(error_msg, "quota")

\* the test of line 191 (and of line 109)
IsQuotaError(error_msg) == Contains(error_msg, "429") \/ Contains(Lower(error_msg), "quota")

\* mutant: the wait is not capped
QuotaWaitTime_NoCap(a) == QuotaBaseWait * Pow2(a)

\* wait_time of _handle_quota_error
QuotaWaitTime(a) == Min(QuotaBaseWait * Pow2(a), QuotaMaxWait)

QuotaMarker ==
    <<Cross, " ", MaxRetriesPhrase, " due to quota limits. Please wait and try again later.">>
\* mutant: every exhausted chunk gets the quota marker's prefix
GenericMarker_AsQuota(error_msg) == <<Cross, " ", MaxRetriesPhrase, ": ">> \o error_msg

GenericMarker(error_msg) == <<"Error: ">> \o error_msg
FallThroughMarker == <<Cross, " ", "Failed to process chunk after multiple attempts">>

(***************************************************************************)
(* Observation records (history, not program state).                       *)
(***************************************************************************)
NoPsc ==
    [key |-> <<>>, fresh |-> FALSE, lookups |-> 0, rate_limits |-> 0, api_calls |-> 0,
     fails |-> <<>>, waits |-> <<>>, response |-> <<>>, wrote |-> "none",
     read_fails |-> 0, limiter_fails |-> 0, after_empty |-> FALSE, outcome |-> "none"]

NoPos ==
    [progress |-> 0, lookups |-> 0, api_calls |-> 0, fails |-> <<>>, before |-> <<>>,
     result |-> <<>>, outcome |-> "none"]

NoRun == [hist |-> <<>>, stopped |-> 0, summary |-> "none"]

\* the start and return times of the last call of _enforce_rate_limit and of
\* the one before it; n counts the calls up to 2
NoLimiter == [n |-> 0, start |-> 0, returned |-> 0, prev_start |-> 0, prev_returned |-> 0]
Limited(l, s, r) ==
    [n |-> IF l.n < 2 THEN l.n + 1 ELSE 2, start |-> s, returned |-> r,
     prev_start |-> l.start, prev_returned |-> l.returned]

\* asked: cache key -> the text of the last direct _save_to_cache call;
\* keyed: the arguments and results of the last two direct _get_cache_key calls
NoCacheOp ==
    [op |-> "none", key |-> <<>>, hours |-> 0, cleared |-> 0, asked |-> [k \in Keys |-> None],
     keyed |-> <<>>]

NoScrape == [op |-> "none"]

NoRet == [kind |-> "none", value |-> <<>>]
Returned(text) == [kind |-> "returned", value |-> text]
ReturnedNone == [kind |-> "returned_none", value |-> <<>>]
Raised(text) == [kind |-> "raised", value |-> text]

(***************************************************************************)
(* GeminiParser.__init__                                                   *)
(***************************************************************************)
NoParser == [alive |-> FALSE, last_api_call |-> 0, rate_limit_delay |-> 0]
GeminiParser(delay) == [alive |-> TRUE, last_api_call |-> 0, rate_limit_delay |-> delay]

MissingKeyMsg == <<"GOOGLE_API_KEY environment variable not set">>

\* nothing has been called yet
InitCalls ==
    /\ now = T0
    /\ parser = NoParser
    /\ pc = "idle"
    /\ caller = "none"
    /\ dom_chunks = <<>>
    /\ parse_description = <<>>
    /\ progress_callback = FALSE
    /\ i = 0
    /\ parsed_results = <<>>
    /\ api_calls_made = 0
    /\ cache_hits = 0
    /\ chunk = <<>>
    /\ max_retries = 0
    /\ attempt = 0
    /\ result = <<>>
    /\ ret = NoRet
    /\ psc = NoPsc
    /\ run = NoRun
    /\ calls = 0
    /\ ticks = 0
    /\ limiter = NoLimiter
    /\ cacheop = NoCacheOp

\* the first use of an empty cache directory
Init ==
    /\ InitCalls
    /\ scraped = NoScrape
    /\ faults = MaxFaults
    /\ cache = [k \in Keys |-> NoFile]
    /\ stored = [k \in Keys |-> None]

runVars == <<dom_chunks, progress_callback, i, parsed_results, api_calls_made, cache_hits, run>>
budgetVars == <<calls, ticks, stored, limiter, cacheop, scraped>>

\* the caller constructs a parser of its own (main.py:78, main.py:136)
NewParser ==
    /\ pc = "idle"
    /\ ~parser.alive
    /\ calls < MaxCalls
    /\ parser' = GeminiParser(DefaultRateLimitDelay)
    /\ limiter' = NoLimiter
    /\ UNCHANGED <<now, cache, pc, caller, parse_description, chunk, max_retries, attempt,
                   result, ret, psc, faults, calls, ticks, stored, cacheop>>
    /\ UNCHANGED runVars
    /\ UNCHANGED scraped

\* time passes between two calls
Tick ==
    /\ pc = "idle"
    /\ ticks < MaxTicks
    /\ ticks' = ticks + 1
    /\ now' = now + cache_duration
    /\ UNCHANGED <<cache, parser, pc, caller, parse_description, chunk, max_retries, attempt,
                   result, ret, psc, faults, calls, stored, limiter, cacheop>>
    /\ UNCHANGED runVars
    /\ UNCHANGED scraped

(***************************************************************************)
(* Direct calls of the cache methods.                                      *)
(***************************************************************************)
\* the texts a caller stores
StoredTexts == {<<"X">>, <<"Y">>}

\* the thresholds a caller sweeps with
SweepHours == {DefaultOlderThanHours}

\* time passes between two cache calls
Elapse(dt) ==
    /\ pc = "idle"
    /\ ticks < MaxElapses
    /\ ticks' = ticks + 1
    /\ now' = now + dt
    /\ UNCHANGED <<cache, parser, pc, caller, parse_description, chunk, max_retries, attempt,
                   result, ret, psc, faults, calls, stored, limiter, cacheop>>
    /\ UNCHANGED runVars
    /\ UNCHANGED scraped

\* _load_from_cache(key) (lines 62-75); read_fails: the entry passes
\* _is_cache_valid and the second read of the file raises
Call_load_from_cache(key, read_fails) ==
    /\ pc = "idle"
    /\ parser.alive
    /\ calls < MaxCacheOps
    /\ calls' = calls + 1
    /\ read_fails => faults > 0 /\ _is_cache_valid(cache[key], now)
    /\ faults' = IF read_fails THEN faults - 1 ELSE faults
    /\ LET cached_result == IF read_fails THEN None ELSE _load_from_cache(cache, key, now)
       IN  ret' = IF cached_result.some THEN Returned(cached_result.val) ELSE ReturnedNone
    /\ cacheop' = [cacheop EXCEPT !.op = IF read_fails THEN "load_failed" ELSE "load",
                                  !.key = key, !.hours = 0, !.cleared = 0]
    /\ UNCHANGED <<now, cache, parser, pc, caller, parse_description, chunk, max_retries,
                   attempt, result, psc, ticks, stored, limiter>>
    /\ UNCHANGED runVars
    /\ UNCHANGED scraped

\* _save_to_cache(key, text) (lines 77-93) with write outcome w
Call_save_to_cache(key, text, w) ==
    /\ pc = "idle"
    /\ parser.alive
    /\ calls < MaxCacheOps
    /\ calls' = calls + 1
    /\ w # "ok" => faults > 0
    /\ faults' = IF w = "ok" THEN faults ELSE faults - 1
    /\ cache' = _save_to_cache(cache, key, text, now, w)
    /\ stored' = IF w = "ok" THEN [stored EXCEPT ![key] = Some(text)] ELSE stored
    /\ ret' = ReturnedNone
    /\ cacheop' = [cacheop EXCEPT !.op = "save", !.key = key, !.hours = 0, !.cleared = 0,
                                  !.asked[key] = Some(text)]
    /\ UNCHANGED <<now, parser, pc, caller, parse_description, chunk, max_retries, attempt,
                   result, psc, ticks, limiter>>
    /\ UNCHANGED runVars
    /\ UNCHANGED scraped

\* clear_old_cache(older_than_hours) (lines 227-242) on a platform
Call_clear_old_cache(older_than_hours, platform) ==
    /\ pc = "idle"
    /\ parser.alive
    /\ calls < MaxCacheOps
    /\ calls' = calls + 1
    /\ cache' = clear_old_cache(cache, now, older_than_hours, platform)
    /\ ret' = ReturnedNone
    /\ cacheop' = [cacheop EXCEPT
                       !.op = "clear", !.key = <<>>, !.hours = older_than_hours,
                       !.cleared = Cardinality({k \in Keys : cache[k].st # "absent"
                                                              /\ cache'[k].st = "absent"})]
    /\ UNCHANGED <<now, parser, pc, caller, parse_description, chunk, max_retries, attempt,
                   result, psc, faults, ticks, stored, limiter>>
    /\ UNCHANGED runVars
    /\ UNCHANGED scraped

\* the contents and instructions a caller asks the key of: texts with and
\* without the character "|"
KeyContents == {<<>>, <<"a">>, <<"b">>, <<"a", "|", "b">>}
KeyInstructions == {<<>>, <<"c">>, <<"q">>, <<"b", "|", "c">>}

\* _get_cache_key(content, description) (lines 39-42)
Call_get_cache_key(content, description) ==
    /\ pc = "idle"
    /\ parser.alive
    /\ LET cache_key == _get_cache_key(content, description)
           call == [content |-> content, description |-> description, key |-> cache_key]
       IN  /\ ret' = Returned(cache_key)
           /\ cacheop' = [cacheop EXCEPT
                              !.op = "key", !.key = cache_key, !.hours = 0, !.cleared = 0,
                              !.keyed = IF @ = <<>> THEN <<call>> ELSE <<@[Len(@)], call>>]
    /\ UNCHANGED <<now, cache, parser, pc, caller, parse_description, chunk, max_retries,
                   attempt, result, psc, faults, calls, ticks, stored, limiter>>
    /\ UNCHANGED runVars
    /\ UNCHANGED scraped

\* lines 95-105: a direct call of _enforce_rate_limit that starts dt seconds
\* after the last event and returns when its sleep is over
Call_enforce_rate_limit(dt) ==
    /\ pc = "idle"
    /\ parser.alive
    /\ calls < MaxLimiterCalls
    /\ calls' = calls + 1
    /\ LET current_time == now + dt
           sleep_time == RateLimitSleep(parser, current_time)
       IN  /\ now' = current_time + sleep_time
           /\ parser' = [parser EXCEPT !.last_api_call = current_time + sleep_time]
           /\ limiter' = Limited(limiter, current_time, current_time + sleep_time)
    /\ UNCHANGED <<cache, pc, caller, parse_description, chunk, max_retries, attempt,
                   result, ret, psc, faults, ticks, stored, cacheop>>
    /\ UNCHANGED runVars
    /\ UNCHANGED scraped

(***************************************************************************)
(* GeminiParser.process_single_chunk                                       *)
(***************************************************************************)
\* process_single_chunk hands v back to its caller
Return(v, how, obs) ==
    /\ result' = v
    /\ pc' = IF caller = "run" THEN "pwg_track" ELSE "idle"
    /\ ret' = IF caller = "run" THEN ret ELSE Returned(v)
    /\ psc' = [obs EXCEPT !.outcome = how]

\* an exception leaves process_single_chunk
Raise(msg, obs) ==
    /\ result' = <<>>
    /\ pc' = IF caller = "run" THEN "pwg_except" ELSE "idle"
    /\ ret' = IF caller = "run" THEN ret ELSE Raised(msg)
    /\ psc' = [obs EXCEPT !.outcome = "raised"]

\* a direct call of process_single_chunk(c, d, r) on the caller's parser
Call_process_single_chunk(c, d, r) ==
    /\ pc = "idle"
    /\ parser.alive
    /\ calls < MaxCalls
    /\ calls' = calls + 1
    /\ caller' = "direct"
    /\ chunk' = c
    /\ parse_description' = d
    /\ max_retries' = r
    /\ pc' = "psc_lookup"
    /\ psc' = [NoPsc EXCEPT !.key = _get_cache_key(c, d),
                            !.after_empty = psc.outcome = "empty"
                                            /\ psc.key = _get_cache_key(c, d)]
    /\ ret' = NoRet
    /\ UNCHANGED <<now, cache, parser, attempt, result, faults, ticks, stored, limiter,
                   cacheop>>
    /\ UNCHANGED runVars
    /\ UNCHANGED scraped

\* lines 145-153: the cache lookup
Lookup ==
    /\ pc = "psc_lookup"
    /\ LET cache_key == _get_cache_key(chunk, parse_description)
           cached_result == _load_from_cache(cache, cache_key, now)
           obs == [psc EXCEPT !.lookups = @ + 1,
                              !.fresh = cache[cache_key].st = "ok"
                                        /\ now - cache[cache_key].timestamp < CacheDurationHours * 3600]
       IN  IF cached_result.some
           THEN /\ Return(cached_result.val, "hit", obs)
                /\ UNCHANGED attempt
           ELSE /\ attempt' = 0
                /\ pc' = "psc_while"
                /\ psc' = obs
                /\ UNCHANGED <<result, ret>>
    /\ UNCHANGED <<now, cache, parser, caller, parse_description, chunk, max_retries, faults>>
    /\ UNCHANGED runVars
    /\ UNCHANGED budgetVars

\* lines 64-73: the entry passes _is_cache_valid, then the second read of the
\* file raises; _load_from_cache prints the error and returns None
LookupReadFails ==
    /\ pc = "psc_lookup"
    /\ faults > 0
    /\ _is_cache_valid(cache[_get_cache_key(chunk, parse_description)], now)
    /\ faults' = faults - 1
    /\ attempt' = 0
    /\ pc' = "psc_while"
    /\ psc' = [psc EXCEPT !.lookups = @ + 1, !.fresh = TRUE, !.read_fails = @ + 1]
    /\ UNCHANGED <<now, cache, parser, caller, parse_description, chunk, max_retries,
                   result, ret>>
    /\ UNCHANGED runVars
    /\ UNCHANGED budgetVars

\* lines 156-159 and 212: the loop test, then _enforce_rate_limit (lines 95-105)
Attempt ==
    /\ pc = "psc_while"
    /\ IF attempt <= max_retries
       THEN LET sleep_time == RateLimitSleep(parser, now)
            IN  /\ now' = now + sleep_time
                /\ parser' = [parser EXCEPT !.last_api_call = now + sleep_time]
                /\ limiter' = Limited(limiter, now, now + sleep_time)
                /\ pc' = "psc_api"
                /\ psc' = [psc EXCEPT !.rate_limits = @ + 1]
                /\ UNCHANGED <<result, ret>>
       ELSE /\ Return(FallThroughMarker, "fallthrough", psc)
            /\ UNCHANGED <<now, parser, limiter>>
    /\ UNCHANGED <<cache, caller, parse_description, chunk, max_retries, attempt, faults>>
    /\ UNCHANGED runVars
    /\ UNCHANGED <<calls, ticks, stored, cacheop>>
    /\ UNCHANGED scraped

\* lines 162-184: generate_content returns text after d seconds; w is the
\* outcome of the cache write
ApiReturns(text, d, w) ==
    /\ pc = "psc_api"
    /\ w # "ok" => faults > 0 /\ Truthy(Strip(text))
    /\ faults' = IF w = "ok" THEN faults ELSE faults - 1
    /\ now' = now + d
    /\ LET cache_key == _get_cache_key(chunk, parse_description)
           obs == [psc EXCEPT !.api_calls = @ + 1, !.response = text]
       IN  IF Truthy(text) /\ Truthy(Strip(text))
           THEN /\ cache' = _save_to_cache(cache, cache_key, Strip(text), now + d, w)
                /\ stored' = IF w = "ok" THEN [stored EXCEPT ![cache_key] = Some(Strip(text))]
                              ELSE stored
                /\ Return(Strip(text), "success", [obs EXCEPT !.wrote = w])
           ELSE /\ cache' = cache
                /\ stored' = stored
                /\ Return(<<>>, "empty", obs)
    /\ UNCHANGED <<parser, caller, parse_description, chunk, max_retries, attempt>>
    /\ UNCHANGED runVars
    /\ UNCHANGED <<calls, ticks, limiter, cacheop>>
    /\ UNCHANGED scraped

\* mutant: a quota retry does not use up an attempt
_handle_quota_error_NoCount(error_msg, a) ==
    IF Contains(error_msg, "429") \/ Contains(Lower(error_msg), "quota")
    THEN [raised |-> FALSE, wait |-> QuotaWaitTime(a), attempt |-> a]
    ELSE [raised |-> TRUE, wait |-> 0, attempt |-> a]

\* mutant: the helper's test for "quota" is case sensitive, unlike line 191's
_handle_quota_error_CaseSensitive(error_msg, a) ==
    IF Contains(error_msg, "429") \/ Contains(error_msg, "quota")
    THEN [raised |-> FALSE, wait |-> QuotaWaitTime(a), attempt |-> a + 1]
    ELSE [raised |-> TRUE, wait |-> 0, attempt |-> a]

\* _handle_quota_error (lines 107-117): the wait and the next attempt index,
\* or the exception of line 117
_handle_quota_error(error_msg, a) ==
    IF Contains(error_msg, "429") \/ Contains(Lower(error_msg), "quota")
    THEN [raised |-> FALSE, wait |-> QuotaWaitTime(a), attempt |-> a + 1]
    ELSE [raised |-> TRUE, wait |-> 0, attempt |-> a]

\* lines 186-210: the handler of an exception with text error_msg that was
\* raised d seconds after the try block was entered
ExceptHandler(error_msg, d, obs) ==
    /\ LET quota == IsQuotaError(error_msg)
           h == _handle_quota_error(error_msg, attempt)
       IN  IF quota
           THEN IF attempt < max_retries
                THEN IF h.raised
                     THEN /\ Raise(error_msg, obs)
                          /\ now' = now + d
                          /\ UNCHANGED attempt
                     ELSE /\ now' = now + d + h.wait
                          /\ attempt' = h.attempt
                          /\ pc' = "psc_while"
                          /\ psc' = [obs EXCEPT !.waits = Append(@, h.wait)]
                          /\ UNCHANGED <<result, ret>>
                ELSE /\ Return(QuotaMarker, "gaveup_quota", obs)
                     /\ now' = now + d
                     /\ UNCHANGED attempt
           ELSE IF attempt < max_retries
                THEN /\ now' = now + d + TransientWait
                     /\ attempt' = attempt + 1
                     /\ pc' = "psc_while"
                     /\ psc' = [obs EXCEPT !.waits = Append(@, TransientWait)]
                     /\ UNCHANGED <<result, ret>>
                ELSE /\ Return(GenericMarker(error_msg), "gaveup_generic", obs)
                     /\ now' = now + d
                     /\ UNCHANGED attempt
    /\ UNCHANGED <<cache, caller, parse_description, chunk, max_retries>>
    /\ UNCHANGED runVars
    /\ UNCHANGED budgetVars

\* lines 162-176: generate_content (or reading response.text) raises
\* error_msg after d seconds
ApiRaises(error_msg, d) ==
    /\ pc = "psc_api"
    /\ faults > 0
    /\ faults' = faults - 1
    /\ ExceptHandler(error_msg, d,
                     [psc EXCEPT !.api_calls = @ + 1,
                                 !.fails = Append(@, IF error_msg \in QuotaErrors
                                                     THEN "quota" ELSE "other")])
    /\ UNCHANGED parser

\* lines 156-159: _enforce_rate_limit raises error_msg inside the try block,
\* before it has set last_api_call
RateLimitRaises(error_msg) ==
    /\ pc = "psc_while"
    /\ attempt <= max_retries
    /\ faults > 0
    /\ faults' = faults - 1
    /\ ExceptHandler(error_msg, 0,
                     [psc EXCEPT !.rate_limits = @ + 1, !.limiter_fails = @ + 1,
                                 !.fails = Append(@, IF error_msg \in QuotaErrors
                                                     THEN "quota" ELSE "other")])
    /\ UNCHANGED parser

(***************************************************************************)
(* parse_with_gemini                                                       *)
(***************************************************************************)
\* mutant: the sections are numbered from 0
Section_ZeroBased(k, text) == <<"--- From Section ", ToString(k - 1), " ---", "\n">> \o text

Section(k, text) == <<"--- From Section ", ToString(k), " ---", "\n">> \o text
StopNotice(k) == <<"--- Processing stopped at section ", ToString(k), " due to quota limits ---">>
\* mutant: nothing is said when nothing was found
Apology_Empty == <<>>

Apology ==
    <<"Sorry, I couldn't find any relevant information for your query due to API quota limits. Please try again later or upgrade your plan.">>
ErrorReturn(msg) == <<"Error: ">> \o msg \o <<". Please check your Google API key and quota limits.">>
DivisionMsg == <<"division by zero">>

\* mutant: the handler lets the exception through
OuterExcept_Reraise(msg) == Raised(msg)

\* lines 347-349: the handler around the whole body
OuterExcept(msg) == Returned(ErrorReturn(msg))

\* "\n\n".join(parts)
RECURSIVE Join(_)
Join(parts) ==
    IF parts = <<>> THEN <<>>
    ELSE IF Len(parts) = 1 THEN parts[1]
    ELSE parts[1] \o <<"\n\n">> \o Join(Tail(parts))

\* lines 277-292: the call, the parser's construction and the locals
Call_parse_with_gemini(chunks, d, cb, key_set) ==
    /\ pc = "idle"
    /\ calls = 0
    /\ calls' = calls + 1
    /\ dom_chunks' = chunks
    /\ parse_description' = d
    /\ progress_callback' = cb
    /\ caller' = "run"
    /\ i' = 0
    /\ parsed_results' = <<>>
    /\ api_calls_made' = 0
    /\ cache_hits' = 0
    /\ psc' = NoPsc
    /\ run' = [NoRun EXCEPT !.hist = [k \in 1..Len(chunks) |-> NoPos]]
    /\ limiter' = NoLimiter
    /\ IF key_set
       THEN /\ parser' = GeminiParser(RunRateLimitDelay)
            /\ pc' = "pwg_for"
            /\ ret' = NoRet
       ELSE /\ parser' = NoParser
            /\ pc' = "idle"
            /\ ret' = OuterExcept(MissingKeyMsg)
    /\ UNCHANGED <<now, cache, chunk, max_retries, attempt, result, faults, ticks, stored,
                   cacheop>>
    /\ UNCHANGED scraped

\* mutant: the callback is never invoked
Progress_Never(h, cb) == h

\* lines 300-301: the callback, when there is one, is invoked for the position
Progress(h, cb) == [h EXCEPT !.progress = IF cb THEN @ + 1 ELSE @]

\* lines 294-304: the next chunk, the progress callback (which may raise) and
\* the call of process_single_chunk
For(cb_raises) ==
    /\ pc = "pwg_for"
    /\ i < Len(dom_chunks)
    /\ cb_raises => progress_callback /\ faults > 0
    /\ faults' = IF cb_raises THEN faults - 1 ELSE faults
    /\ i' = i + 1
    /\ chunk' = dom_chunks[i + 1]
    /\ run' = [run EXCEPT !.hist[i + 1] = [Progress(@, progress_callback)
                                              EXCEPT !.before = parsed_results]]
    /\ psc' = [NoPsc EXCEPT !.key = _get_cache_key(dom_chunks[i + 1], parse_description)]
    /\ max_retries' = DefaultMaxRetries
    /\ pc' = IF cb_raises THEN "pwg_except" ELSE "psc_lookup"
    /\ UNCHANGED <<now, cache, parser, caller, dom_chunks, parse_description,
                   progress_callback, parsed_results, api_calls_made, cache_hits,
                   attempt, result, ret>>
    /\ UNCHANGED budgetVars

\* what process_single_chunk did for the chunk at the current position
Seen(h, obs) ==
    [h EXCEPT !.lookups = @ + obs.lookups, !.api_calls = @ + obs.api_calls,
              !.fails = obs.fails, !.result = result, !.outcome = obs.outcome]

\* lines 327-329: an exception in the loop body skips the chunk
Except ==
    /\ pc = "pwg_except"
    /\ pc' = "pwg_for"
    /\ run' = [run EXCEPT !.hist[i] = [Seen(@, psc) EXCEPT !.result = <<>>,
                                                            !.outcome = "exception"]]
    /\ UNCHANGED <<now, cache, parser, caller, dom_chunks, parse_description,
                   progress_callback, i, parsed_results, api_calls_made, cache_hits,
                   chunk, max_retries, attempt, result, ret, psc, faults>>
    /\ UNCHANGED budgetVars

\* the test of line 313
IsPayload(text) == Truthy(text) /\ Truthy(Strip(text)) /\ ~StartsWith(text, Cross)

\* the test of line 314
IsNoInfo(text) == Contains(Lower(text), NoInfoPhrase)

\* mutant: the stop test looks for a phrase the marker does not hold
IsQuotaStop_WrongPhrase(text) == StartsWith(text, Cross) /\ Contains(text, "Quota exceeded")

\* the tests of lines 317 and 320
IsQuotaStop(text) == StartsWith(text, Cross) /\ Contains(text, MaxRetriesPhrase)

\* lines 306-325: the counters and what the chunk's result adds to the output
Track ==
    /\ pc = "pwg_track"
    /\ LET cache_key == _get_cache_key(chunk, parse_description)
           in_text == Contains(result, CacheHitPhrase)
           reread == _load_from_cache(cache, cache_key, now)
           hit == in_text \/ (reread.some /\ Truthy(reread.val))
           seen == Seen(run.hist[i], psc)
           h == [seen EXCEPT !.lookups = IF in_text THEN @ ELSE @ + 1]
       IN  /\ cache_hits' = IF hit THEN cache_hits + 1 ELSE cache_hits
           /\ api_calls_made' = IF hit THEN api_calls_made ELSE api_calls_made + 1
           /\ IF IsPayload(result)
              THEN /\ parsed_results' =
                        IF ~IsNoInfo(result)
                        THEN Append(parsed_results, Section(i, result))
                        ELSE parsed_results
                   /\ pc' = "pwg_for"
                   /\ run' = [run EXCEPT !.hist[i] = h]
              ELSE IF IsQuotaStop(result)
                   THEN /\ parsed_results' = Append(parsed_results, StopNotice(i))
                        /\ pc' = "pwg_summary"
                        /\ run' = [run EXCEPT !.hist[i] = h, !.stopped = i]
                   ELSE /\ parsed_results' = parsed_results
                        /\ pc' = "pwg_for"
                        /\ run' = [run EXCEPT !.hist[i] = h]
    /\ UNCHANGED <<now, cache, parser, caller, dom_chunks, parse_description,
                   progress_callback, i, chunk, max_retries, attempt, result, ret, psc,
                   faults>>
    /\ UNCHANGED budgetVars

\* line 294: the chunks are used up
EndFor ==
    /\ pc = "pwg_for"
    /\ i >= Len(dom_chunks)
    /\ pc' = "pwg_summary"
    /\ UNCHANGED <<now, cache, parser, caller, parse_description, chunk, max_retries, attempt,
                   result, ret, psc, faults>>
    /\ UNCHANGED runVars
    /\ UNCHANGED budgetVars

\* lines 331-349: the summary (which divides by total_chunks) and the return
Summary ==
    /\ pc = "pwg_summary"
    /\ LET total_chunks == Len(dom_chunks)
       IN  IF total_chunks = 0
           THEN /\ ret' = OuterExcept(DivisionMsg)
                /\ run' = [run EXCEPT !.summary = "exception"]
           ELSE IF parsed_results # <<>>
           THEN /\ ret' = Returned(Join(parsed_results))
                /\ run' = [run EXCEPT !.summary = "combined"]
           ELSE /\ ret' = Returned(Apology)
                /\ run' = [run EXCEPT !.summary = "apology"]
    /\ pc' = "idle"
    /\ parser' = NoParser
    /\ UNCHANGED <<now, cache, caller, dom_chunks, parse_description, progress_callback, i,
                   parsed_results, api_calls_made, cache_hits, chunk, max_retries, attempt,
                   result, psc, faults>>
    /\ UNCHANGED budgetVars

ChunkStep ==
    \/ Lookup
    \/ Attempt
    \/ \E text \in Responses, d \in ApiDurations, w \in WriteOutcomes : ApiReturns(text, d, w)
    \/ \E error_msg \in ErrorMsgs, d \in ApiDurations : ApiRaises(error_msg, d)

\* direct use of one parser (the chunks are interchangeable: the first call
\* is for A; the first call is given any retry budget, the later ones the
\* default)
NextChunk ==
    \/ NewParser
    \/ Tick
    \/ \E c \in (IF calls = 0 THEN {<<"A">>} ELSE Chunks), d \in Instructions,
          r \in (IF calls = 0 THEN RetryArgs ELSE {DefaultMaxRetries}) :
             Call_process_single_chunk(c, d, r)
    \/ ChunkStep

SpecChunk == Init /\ [][NextChunk]_vars

\* direct calls in which every step of process_single_chunk can fail: the
\* cache read, the rate limiter, the API call and the cache write
NextFault ==
    \/ NewParser
    \/ \E d \in Instructions, r \in RetryArgs : Call_process_single_chunk(<<"A">>, d, r)
    \/ ChunkStep
    \/ LookupReadFails
    \/ \E error_msg \in ErrorMsgs : RateLimitRaises(error_msg)

SpecFault == Init /\ [][NextFault]_vars

\* the cache directory is empty and few reads and writes fail
InitCache ==
    /\ InitCalls
    /\ scraped = NoScrape
    /\ faults = MaxCacheFaults
    /\ cache = [k \in Keys |-> NoFile]
    /\ stored = [k \in Keys |-> None]

\* the cache directory holds one damaged file, for the pair (A, q)
InitDamaged ==
    /\ InitCalls
    /\ scraped = NoScrape
    /\ faults = MaxFaults
    /\ \E kind \in DamagedKinds :
          cache = [k \in Keys |-> IF k = _get_cache_key(<<"A">>, <<"q">>)
                                  THEN DamagedFile(kind, T0) ELSE NoFile]
    /\ stored = [k \in Keys |-> None]

\* lookups and direct calls of process_single_chunk without retries
NextDamaged ==
    \/ NewParser
    \/ \E key \in Keys : Call_load_from_cache(key, FALSE)
    \/ \E c \in Chunks, d \in Instructions : Call_process_single_chunk(c, d, 0)
    \/ ChunkStep

SpecDamaged == InitDamaged /\ [][NextDamaged]_vars

\* direct calls of the cache methods of one parser (the texts are
\* interchangeable: the first save of a key is given X)
NextCache ==
    \/ NewParser
    \/ \E dt \in Elapses : Elapse(dt)
    \/ \E key \in Keys, read_fails \in BOOLEAN : Call_load_from_cache(key, read_fails)
    \/ \E key \in Keys, w \in WriteOutcomes :
          \E text \in (IF cacheop.asked[key].some THEN StoredTexts ELSE {<<"X">>}) :
             Call_save_to_cache(key, text, w)
    \/ \E h \in SweepHours, platform \in Platforms : Call_clear_old_cache(h, platform)

SpecCache == InitCache /\ [][NextCache]_vars

\* direct calls of _get_cache_key
NextKey ==
    \/ NewParser
    \/ \E content \in KeyContents, description \in KeyInstructions :
          Call_get_cache_key(content, description)

SpecKey == Init /\ [][NextKey]_vars

\* ---------------------------------------------------------------------------
\* scrape.py: split_dom_content (lines 809-828)

MaxTextLen == 5
MaxSplitLen == 3

\* the characters of a page text
PageChars == {"x", "y"}

PageTexts == SeqsUpTo(PageChars, MaxTextLen)

SplitLengths == 1..MaxSplitLen

\* range(start, stop, step) for step >= 1, as the sequence of its values
RECURSIVE Range(_, _, _)
Range(start, stop, step) ==
    IF start >= stop THEN <<>> ELSE <<start>> \o Range(start + step, stop, step)

\* s[a : b] for 0 <= a <= len(s): the end of a slice is clipped to len(s)
Slice(s, a, b) == SubSeq(s, a + 1, Min(b, Len(s)))

\* the variant that keeps only the chunks of full length
split_dom_content_FullOnly(dom_content, max_length) ==
    LET starts == Range(0, Len(dom_content) - max_length + 1, max_length)
    IN  [j \in 1..Len(starts) |-> Slice(dom_content, starts[j], starts[j] + max_length)]

\* lines 809-828 (the loop of lines 821-826 only prints)
split_dom_content(dom_content, max_length) ==
    IF dom_content = <<>> THEN <<>>
    ELSE LET starts == Range(0, Len(dom_content), max_length)
         IN  [j \in 1..Len(starts) |-> Slice(dom_content, starts[j], starts[j] + max_length)]

Call_split_dom_content(dom_content, max_length) ==
    /\ pc = "idle"
    /\ scraped' = [op |-> "split", dom_content |-> dom_content, max_length |-> max_length,
                   chunks |-> split_dom_content(dom_content, max_length)]
    /\ UNCHANGED <<now, cache, parser, pc, caller, parse_description, chunk, max_retries,
                   attempt, result, ret, psc, faults, calls, ticks, stored, limiter, cacheop>>
    /\ UNCHANGED runVars

NextSplit ==
    \E dom_content \in PageTexts, max_length \in SplitLengths :
        Call_split_dom_content(dom_content, max_length)

SpecSplit == Init /\ [][NextSplit]_vars

\* ---------------------------------------------------------------------------
\* scrape.py: extract_body_content (lines 673-745)

MaxNodes == 3

\* the parsed document: text strings, img elements and a elements with children
TextNode(text) == [tag |-> "text", text |-> text]
ImgNode(alt, src) == [tag |-> "img", alt |-> alt, src |-> src]
ANode(href, kids) == [tag |-> "a", href |-> href, kids |-> kids]
BodyNode(kids) == [tag |-> "body", kids |-> kids]
NoNode == [tag |-> "none"]

HasKids(node) == node.tag \in {"a", "body"}

\* URLs are token sequences; one that starts with a scheme is absolute
Hrefs == {<<>>, <<"l.html">>}
BaseUrls == {<<>>, <<"http://s/">>}
IsAbsolute(url) == url # <<>> /\ url[1] = "http://c/"

\* urllib.parse.urljoin for a base that names a directory
urljoin(base, url) ==
    IF url = <<>> THEN base
    ELSE IF IsAbsolute(url) THEN url
    ELSE base \o url

Leaves ==
    {TextNode(<<"t">>), TextNode(<<" ">>),
     ImgNode(<<"p">>, <<"i.png">>), ImgNode(<<>>, <<"http://c/", "j.png">>)}

RECURSIVE Size(_)
Size(node) ==
    IF HasKids(node)
    THEN LET RECURSIVE Sum(_)
             Sum(k) == IF k = 0 THEN 0 ELSE Size(node.kids[k]) + Sum(k - 1)
         IN  1 + Sum(Len(node.kids))
    ELSE 1

\* the element sequences of at most n nodes, and the nodes of at most n nodes
RECURSIVE Forest(_)
RECURSIVE Tree(_)
Forest(n) ==
    {<<>>} \cup UNION {{<<t>> \o f : f \in Forest(n - Size(t))} : t \in Tree(n)}

Tree(n) ==
    IF n = 0 THEN {}
    ELSE Leaves \cup {ANode(href, kids) : href \in Hrefs, kids \in Forest(n - 1)}

\* html.parser nests an a element opened inside an a element
Bodies == {BodyNode(kids) : kids \in Forest(MaxNodes)}

EmptyHtml == [empty |-> TRUE]
Html(title, body) == [empty |-> FALSE, title |-> title, body |-> body]

\* the empty document, documents without a body, and documents with one
HtmlInputs ==
    {EmptyHtml}
    \cup {Html(title, NoNode) : title \in {None, Some(<<" ", "T", " ">>)}}
    \cup {Html(None, body) : body \in Bodies}

\* Tag.find_all(name): the descendants of that name in document order, each
\* named by its path of child positions
RECURSIVE find_all(_, _)
RECURSIVE FindInKids(_, _, _)
find_all(node, name) == IF HasKids(node) THEN FindInKids(node, name, 1) ELSE <<>>

FindInKids(node, name, k) ==
    IF k > Len(node.kids) THEN <<>>
    ELSE LET kid == node.kids[k]
             below == find_all(kid, name)
         IN  (IF kid.tag = name THEN <<(<<k>>)>> ELSE <<>>)
                 \o [j \in 1..Len(below) |-> <<k>> \o below[j]]
                 \o FindInKids(node, name, k + 1)

\* the node at a path, or NoNode when the path no longer leads to an element
RECURSIVE NodeAt(_, _)
NodeAt(node, path) ==
    IF path = <<>> THEN node
    ELSE IF HasKids(node) /\ Head(path) <= Len(node.kids)
         THEN NodeAt(node.kids[Head(path)], Tail(path))
         ELSE NoNode

\* PageElement.replace_with(str): a string takes the element's place
RECURSIVE replace_with(_, _, _)
replace_with(node, path, text) ==
    IF path = <<>> THEN TextNode(text)
    ELSE [node EXCEPT !.kids[Head(path)] = replace_with(@, Tail(path), text)]

\* the strings below a node in document order
RECURSIVE Strings(_)
Strings(node) ==
    IF node.tag = "text" THEN <<node.text>>
    ELSE IF HasKids(node)
         THEN LET RECURSIVE Of(_)
                  Of(k) == IF k > Len(node.kids) THEN <<>>
                           ELSE Strings(node.kids[k]) \o Of(k + 1)
              IN  Of(1)
         ELSE <<>>

RECURSIVE JoinWith(_, _)
JoinWith(strings, separator) ==
    IF strings = <<>> THEN <<>>
    ELSE IF Len(strings) = 1 THEN strings[1]
    ELSE strings[1] \o separator \o JoinWith(Tail(strings), separator)

\* Tag.get_text(separator)
get_text(node, separator) == JoinWith(Strings(node), separator)

ImageToken == "IMAGE_ASSET: "
HyperlinkToken == "[HYPERLINK: "

\* line 703
ImageMarker(alt, src) == <<ImageToken>> \o alt \o <<" | Source: ">> \o src

\* line 726
LinkMarker(text, href) == <<HyperlinkToken>> \o text \o <<" -> ">> \o href \o <<"]">>

\* lines 700-701 and 722-723
Resolve(url, base_url) == IF url # <<>> /\ base_url # <<>> THEN urljoin(base_url, url) ELSE url

\* lines 695-707: each image found is replaced by its marker
RECURSIVE ReplaceImages(_, _, _)
ReplaceImages(body, images, base_url) ==
    IF images = <<>> THEN body
    ELSE LET img == NodeAt(body, Head(images))
             marker == ImageMarker(img.alt, Resolve(img.src, base_url))
         IN  ReplaceImages(replace_with(body, Head(images), marker), Tail(images), base_url)

\* lines 714-720
LinkText(link) ==
    LET link_text == Strip(get_text(link, <<>>))
    IN  IF link_text = <<>> THEN <<"NO_TEXT">> ELSE link_text

\* lines 713-730: each link found after the images is replaced by its marker;
\* a link below a link that was replaced earlier is no longer in the body,
\* and its replacement happens inside the removed element
RECURSIVE ReplaceLinks(_, _, _)
ReplaceLinks(body, links, base_url) ==
    IF links = <<>> THEN body
    ELSE LET link == NodeAt(body, Head(links))
         IN  IF link.tag = "a"
             THEN ReplaceLinks(replace_with(body, Head(links),
                                            LinkMarker(LinkText(link), Resolve(link.href, base_url))),
                               Tail(links), base_url)
             ELSE ReplaceLinks(body, Tail(links), base_url)

\* lines 673-745
extract_body_content(html_content, base_url) ==
    IF html_content.empty THEN <<>>
    ELSE LET page_title == IF html_content.title.some THEN Strip(html_content.title.val)
                           ELSE <<"No title found">>
             body_content == html_content.body
             imaged == ReplaceImages(body_content, find_all(body_content, "img"), base_url)
             linked == ReplaceLinks(imaged, find_all(imaged, "a"), base_url)
             body_html == IF body_content = NoNode THEN <<>> ELSE get_text(linked, <<"\n">>)
         IN  <<"PAGE TITLE: ">> \o page_title \o <<"\n\nBODY CONTENT:\n">> \o body_html

\* a page has been fetched and is about to be extracted (main.py:60)
InitExtract ==
    /\ InitCalls
    /\ faults = MaxFaults
    /\ cache = [k \in Keys |-> NoFile]
    /\ stored = [k \in Keys |-> None]
    /\ \E html_content \in HtmlInputs, base_url \in BaseUrls :
          scraped = [op |-> "fetched", html_content |-> html_content, base_url |-> base_url]

Call_extract_body_content ==
    /\ pc = "idle"
    /\ scraped.op = "fetched"
    /\ scraped' = [scraped EXCEPT !.op = "extract"] @@
                      [text |-> extract_body_content(scraped.html_content, scraped.base_url)]
    /\ UNCHANGED <<now, cache, parser, pc, caller, parse_description, chunk, max_retries,
                   attempt, result, ret, psc, faults, calls, ticks, stored, limiter, cacheop>>
    /\ UNCHANGED runVars

NextExtract == Call_extract_body_content

SpecExtract == InitExtract /\ [][NextExtract]_vars

\* direct calls of _enforce_rate_limit on one parser
NextLimiter ==
    \/ NewParser
    \/ \E dt \in CallGaps : Call_enforce_rate_limit(dt)

SpecLimiter == Init /\ [][NextLimiter]_vars

\* runs of parse_with_gemini
Next ==
    \/ \E chunks \in ChunkLists, d \in Instructions, cb \in BOOLEAN,
          key_set \in BOOLEAN : Call_parse_with_gemini(chunks, d, cb, key_set)
    \/ \E cb_raises \in BOOLEAN : For(cb_raises)
    \/ Lookup
    \/ Attempt
    \/ \E text \in RunResponses, d \in ApiDurations : ApiReturns(text, d, "ok")
    \/ \E error_msg \in ErrorMsgs, d \in ApiDurations : ApiRaises(error_msg, d)
    \/ Except
    \/ Track
    \/ EndFor
    \/ Summary

Spec == Init /\ [][Next]_vars

\* runs in which two chunks can use up their attempts: the progress callback
\* does not raise and every response is the same text
InitStop ==
    /\ InitCalls
    /\ scraped = NoScrape
    /\ faults = 2 * (DefaultMaxRetries + 1)
    /\ cache = [k \in Keys |-> NoFile]
    /\ stored = [k \in Keys |-> None]

NextStop ==
    \/ \E chunks \in ChunkLists, d \in Instructions, cb \in BOOLEAN :
          Call_parse_with_gemini(chunks, d, cb, TRUE)
    \/ For(FALSE)
    \/ Lookup
    \/ Attempt
    \/ \E d \in ApiDurations : ApiReturns(<<"s">>, d, "ok")
    \/ \E error_msg \in ErrorMsgs, d \in ApiDurations : ApiRaises(error_msg, d)
    \/ Track
    \/ EndFor
    \/ Summary

SpecStop == InitStop /\ [][NextStop]_vars

\* what the model may answer: plain text, and text that opens with the
\* glyph the failure markers open with (with and without their phrase)
EchoResponses ==
    { <<"r">>,
      <<Cross, " ", "not listed on this page">>,
      <<Cross, " ", MaxRetriesPhrase, " ", "is what the page says">> }

\* runs in which every API call succeeds
NextEcho ==
    \/ \E chunks \in ChunkLists, d \in Instructions, cb \in BOOLEAN :
          Call_parse_with_gemini(chunks, d, cb, TRUE)
    \/ For(FALSE)
    \/ Lookup
    \/ Attempt
    \/ \E text \in EchoResponses, d \in ApiDurations : ApiReturns(text, d, "ok")
    \/ Track
    \/ EndFor
    \/ Summary

SpecEcho == Init /\ [][NextEcho]_vars

\* lines 162-176 with no limit on how often the API fails
ApiRaisesFreely(error_msg, d) ==
    /\ pc = "psc_api"
    /\ ExceptHandler(error_msg, d,
                     [psc EXCEPT !.api_calls = @ + 1,
                                 !.fails = Append(@, IF error_msg \in QuotaErrors
                                                     THEN "quota" ELSE "other")])
    /\ UNCHANGED <<parser, faults>>

\* one error of each type
LiveErrors == {<<"429", " ", "Too Many Requests">>, <<"timeout">>}

\* the steps of a call that has begun: each sleep and each API call returns,
\* with any outcome
LiveStep ==
    \/ \E cb_raises \in BOOLEAN : For(cb_raises)
    \/ Lookup
    \/ Attempt
    \/ \E text \in RunResponses, d \in ApiDurations : ApiReturns(text, d, "ok")
    \/ \E error_msg \in LiveErrors, d \in ApiDurations : ApiRaisesFreely(error_msg, d)
    \/ Except
    \/ Track
    \/ EndFor
    \/ Summary

MaxLiveChunks == 2

\* one list of each length, in which neighbours differ, so that no chunk is
\* served by the entry of the chunk before it
LiveChunkLists ==
    {chunks \in ChunkLists :
        /\ Len(chunks) <= MaxLiveChunks
        /\ \A k \in 1..Len(chunks) : chunks[k] = IF k % 2 = 1 THEN <<"A">> ELSE <<"B">>}

\* the progress callback raises at most once
InitLive ==
    /\ InitCalls
    /\ scraped = NoScrape
    /\ faults = 1
    /\ cache = [k \in Keys |-> NoFile]
    /\ stored = [k \in Keys |-> None]

\* one run of parse_with_gemini, or one direct call of process_single_chunk
\* with any retry budget
NextLive ==
    \/ NewParser
    \/ \E d \in Instructions, r \in RetryArgs :
          calls = 0 /\ Call_process_single_chunk(<<"A">>, d, r)
    \/ \E chunks \in LiveChunkLists, d \in Instructions, cb \in BOOLEAN :
          Call_parse_with_gemini(chunks, d, cb, TRUE)
    \/ LiveStep

\* the interpreter runs a call that has begun to its next step
SpecLive == InitLive /\ [][NextLive]_vars /\ WF_vars(LiveStep)

(***************************************************************************)
(* Properties of parse_with_gemini, checked under Spec.                    *)
(***************************************************************************)
\* the run went through its loop and its summary and has returned
RunDone == pc = "idle" /\ run.summary # "none"

\* the chunk at position k used all attempts of the default budget and its
\* last failure was of the quota type / of another type
QuotaExhaustedAt(k) ==
    LET f == run.hist[k].fails
    IN  Len(f) = DefaultMaxRetries + 1 /\ f[Len(f)] = "quota"

GenericExhaustedAt(k) ==
    LET f == run.hist[k].fails
    IN  Len(f) = DefaultMaxRetries + 1 /\ f[Len(f)] = "other"

\* text holds the header of section k
HasSection(text, k) ==
    \E p \in 1..(Len(text) - 1) : text[p] = "--- From Section " /\ text[p + 1] = ToString(k)

\* C1: when chunk k ends in quota exhaustion, the loop never goes past k (no
\* callback, lookup or API call for a later chunk), and the returned text is
\* the sections accumulated before k followed by the stop notice for k
C1_EarlyStop ==
    \A k \in 1..Len(run.hist) :
        QuotaExhaustedAt(k) =>
            /\ i = k
            /\ \A j \in (k + 1)..Len(run.hist) : run.hist[j] = NoPos
            /\ pc = "idle" =>
                   ret = Returned(Join(Append(run.hist[k].before,
                            <<"--- Processing stopped at section ", ToString(k),
                              " due to quota limits ---">>)))

C1_Witness ==
    /\ RunDone
    /\ Len(dom_chunks) = 3
    /\ progress_callback
    /\ run.hist[1].outcome = "success"
    /\ QuotaExhaustedAt(2)
    /\ run.stopped = 2
    /\ HasSection(ret.value, 1)

\* C2: a section is in the returned text only for a chunk whose result is a
\* successful payload (fresh from the API or from the cache); a chunk that
\* failed on every attempt leaves nothing
C2_SectionOnlyForPayload ==
    RunDone =>
        \A k \in 1..Len(run.hist) :
            HasSection(ret.value, k) => run.hist[k].outcome \in {"success", "hit"}

C4_EmptyBatchApology ==
    (RunDone /\ dom_chunks = <<>>) => ret = Returned(Apology)

\* C5: parse_with_gemini never raises; once called it has a string to return
C5_NeverRaises ==
    /\ ret.kind # "raised"
    /\ (pc = "idle" /\ calls > 0) => ret.kind = "returned"

C5_Witness ==
    /\ pc = "idle"
    /\ calls > 0
    /\ ret.kind = "returned"
    /\ ret.value[2] = "GOOGLE_API_KEY environment variable not set"

(***************************************************************************)
(* Properties of process_single_chunk, checked under SpecChunk.            *)
(***************************************************************************)
\* the file holds an entry younger than 24 hours at time t
FreshEntry(file, t) == file.st = "ok" /\ t - file.timestamp < 24 * 3600

\* x is raw without its leading and trailing whitespace
IsTrimOf(x, raw) ==
    /\ x = <<>> \/ (~IsSpace(x[1]) /\ ~IsSpace(x[Len(x)]))
    /\ \E a \in 0..Len(raw) :
          /\ a + Len(x) <= Len(raw)
          /\ x = SubSeq(raw, a + 1, a + Len(x))
          /\ \A k \in 1..a : IsSpace(raw[k])
          /\ \A k \in (a + Len(x) + 1)..Len(raw) : IsSpace(raw[k])

\* C6: a lookup that finds a fresh entry returns the stored text at once: no
\* rate limiter, no API call, last_api_call and the cache unchanged
C6_CacheHitShortCircuit ==
    [][(pc = "psc_lookup" /\ FreshEntry(cache[psc.key], now)) =>
          /\ pc' = "idle"
          /\ ret' = Returned(cache[psc.key].result)
          /\ cache' = cache
          /\ parser' = parser
          /\ now' = now
          /\ psc'.rate_limits = 0
          /\ psc'.api_calls = 0]_vars

C6_Witness ==
    /\ pc = "idle"
    /\ psc.fresh
    /\ psc.outcome = "hit"
    /\ ret = Returned(<<"r">>)
    /\ parser.last_api_call > 0

\* C7 as stated: after a successful non-empty response the call returns the
\* trimmed response and the cache holds that text under the pair's key
C7_SuccessIsCached ==
    psc.outcome = "success" =>
        /\ IsTrimOf(ret.value, psc.response)
        /\ cache[psc.key].st = "ok"
        /\ cache[psc.key].result = ret.value

\* C7 as amended: after a successful non-empty response the call returns the
\* trimmed response and, when the cache write succeeds, the cache holds that
\* text under the pair's key; a later call that finds the entry fresh returns
\* the text last written and makes no API call
C7_SuccessReturnsTrimmedAndStores ==
    /\ psc.outcome = "success" =>
          /\ ret.value # <<>>
          /\ IsTrimOf(ret.value, psc.response)
          /\ psc.wrote = "ok" =>
                /\ cache[psc.key].st = "ok"
                /\ cache[psc.key].result = ret.value
                /\ stored[psc.key] = Some(ret.value)
    /\ psc.fresh =>
          /\ psc.outcome = "hit"
          /\ psc.api_calls = 0
          /\ stored[psc.key].some
          /\ ret.value = stored[psc.key].val

C7_Witness ==
    /\ pc = "idle"
    /\ calls = 2
    /\ psc.fresh
    /\ psc.outcome = "hit"
    /\ stored[psc.key] = Some(<<"r">>)
    /\ ret = Returned(<<"r">>)

\* C8: one call invokes the API at most max_retries + 1 times, and the
\* attempt counter counts the failures of both types
C8_AttemptBudget ==
    /\ psc.api_calls <= max_retries + 1
    /\ pc \in {"psc_while", "psc_api"} =>
          /\ attempt = Len(psc.fails)
          /\ psc.api_calls = attempt

C8_Witness ==
    /\ max_retries = 3
    /\ psc.api_calls = 4
    /\ \E a, b \in 1..Len(psc.fails) : psc.fails[a] = "quota" /\ psc.fails[b] = "other"

\* C9: the wait after the failure at attempt index a (a = k - 1) with
\* attempts remaining is 60, 120, 240, then 300 seconds for a quota-type
\* failure and 5 seconds for any other
C9_BackoffSchedule ==
    \A k \in 1..Len(psc.waits) :
        psc.waits[k] =
            IF psc.fails[k] = "quota"
            THEN CASE k = 1 -> 60
                   [] k = 2 -> 120
                   [] k = 3 -> 240
                   [] OTHER -> 300
            ELSE 5

C9_Witness ==
    /\ psc.waits = <<60, 120, 240, 300>>
    /\ psc.fails = <<"quota", "quota", "quota", "quota">>

\* C10: a call that missed the cache ends as Success, Empty or GivenUp; it
\* gives up exactly at a failure of the last allowed attempt, and the marker
\* follows the type of that last failure
C10_RetryOutcome ==
    LET n == Len(psc.fails)
        givenUp == psc.outcome \in {"gaveup_quota", "gaveup_generic"}
    IN  /\ psc.outcome \in {"none", "hit", "success", "empty", "gaveup_quota", "gaveup_generic"}
        /\ psc.outcome = "success" => (result # <<>> /\ IsTrimOf(result, psc.response))
        /\ psc.outcome = "empty" => result = <<>>
        /\ givenUp <=> n = max_retries + 1
        /\ givenUp =>
              /\ ret = Returned(result)
              /\ psc.fails[n] = "quota" =>
                    (result[1] = Cross /\ result[3] = "Max retries reached")
              /\ psc.fails[n] = "other" => result[1] = "Error: "

C10_Witness ==
    /\ pc = "idle"
    /\ psc.fails = <<"other", "quota", "other", "quota">>
    /\ psc.outcome = "gaveup_quota"

\* the positions of the section headers in text
HeaderPositions(text) == {p \in 1..Len(text) : text[p] = "--- From Section "}

\* the header at position p of text is the one of chunk k, and the result of
\* chunk k stands below it
IsSectionOf(text, p, k) ==
    LET body == run.hist[k].result
    IN  /\ p + 3 + Len(body) <= Len(text)
        /\ text[p + 1] = ToString(k)
        /\ text[p + 2] = " ---"
        /\ text[p + 3] = "\n"
        /\ body # <<>>
        /\ SubSeq(text, p + 4, p + 3 + Len(body)) = body
        /\ p + 3 + Len(body) < Len(text) => text[p + 4 + Len(body)] = "\n\n"

\* C18: every section header of the returned text carries the 1-based
\* position of the chunk whose result stands below it, the positions grow
\* strictly from header to header (so none comes twice), and a blank line
\* stands between a section and what precedes it
C18_SectionOrder ==
    (RunDone /\ run.summary = "combined") =>
        LET text == ret.value
        IN  /\ \A p \in HeaderPositions(text) :
                   /\ \E k \in 1..Len(dom_chunks) : IsSectionOf(text, p, k)
                   /\ p > 1 => text[p - 1] = "\n\n"
            /\ \A p, q \in HeaderPositions(text) :
                   p < q => \E k, m \in 1..Len(dom_chunks) :
                               /\ k < m
                               /\ IsSectionOf(text, p, k)
                               /\ IsSectionOf(text, q, m)
            /\ text[1] \in {"--- From Section ", "--- Processing stopped at section "}

C18_Witness ==
    /\ RunDone
    /\ Len(dom_chunks) = 3
    /\ run.hist[2].outcome = "empty"
    /\ run.hist[3].outcome = "hit"
    /\ ret.value = <<"--- From Section ", "1", " ---", "\n", "r", "\n\n",
                     "--- From Section ", "3", " ---", "\n", "r">>

\* C19: when a callback is given, it is invoked exactly once for every
\* position the loop reaches, at the moment the loop moves to that position:
\* after the processing of the position before is over and before any cache
\* lookup, rate-limit wait or API call for the new position
C19_ProgressOrdering ==
    [][progress_callback =>
          /\ \A k \in 1..Len(run'.hist) :
                 run'.hist[k].progress = IF k <= i' THEN 1 ELSE 0
          /\ i' # i =>
                 /\ i' = i + 1
                 /\ pc = "pwg_for"
                 /\ i >= 1 => run.hist[i].outcome # "none"
                 /\ run.hist[i'].progress = 0
                 /\ run'.hist[i'].lookups = 0 /\ run'.hist[i'].api_calls = 0
                 /\ psc'.lookups = 0 /\ psc'.rate_limits = 0 /\ psc'.api_calls = 0
          /\ (psc'.lookups > psc.lookups \/ psc'.rate_limits > psc.rate_limits
                  \/ psc'.api_calls > psc.api_calls
                  \/ (i' = i /\ i >= 1 /\ run'.hist[i].lookups > run.hist[i].lookups)) =>
                 /\ i' = i
                 /\ run.hist[i].progress = 1]_vars

C19_Witness ==
    /\ progress_callback
    /\ Len(dom_chunks) = 3
    /\ i = 2
    /\ pc = "psc_lookup"
    /\ run.hist[1].outcome = "success"
    /\ run.hist[2].progress = 1
    /\ run.hist[2].lookups = 0
    /\ run.hist[3].progress = 0

\* C20: whatever the progress callback does, every chunk the loop reached was
\* passed to process_single_chunk (which starts with the cache lookup) and
\* its result went through the result handling of the loop
C20_CallbackNotCancellation ==
    (RunDone /\ progress_callback) =>
        \A k \in 1..i :
            /\ run.hist[k].lookups >= 1
            /\ run.hist[k].outcome \in
                  {"hit", "success", "empty", "gaveup_quota", "gaveup_generic"}

\* C21: a run over a non-empty chunk list in which every chunk returned the
\* empty string returns the apology message, and no run returns the empty
\* string
C21_ApologyNeverEmpty ==
    (pc = "idle" /\ calls > 0) =>
        /\ ret.kind = "returned"
        /\ ret.value # <<>>
        /\ \A k \in 1..Len(ret.value) : ret.value[k] # ""
        /\ (RunDone /\ dom_chunks # <<>>
               /\ \A k \in 1..Len(run.hist) : run.hist[k].outcome = "empty") =>
              ret = Returned(<<"Sorry, I couldn't find any relevant information for your query due to API quota limits. Please try again later or upgrade your plan.">>)

C21_Witness ==
    /\ RunDone
    /\ Len(dom_chunks) = 3
    /\ \A k \in 1..3 : run.hist[k].outcome = "empty" /\ run.hist[k].api_calls = 1
    /\ ret = Returned(Apology)

\* text is empty or consists of whitespace
IsBlank(text) == \A k \in 1..Len(text) : IsSpace(text[k])

\* C17: an API call that succeeds with an empty or whitespace-only text makes
\* process_single_chunk return the empty string and leave the cache as it
\* was; the next call for the same chunk and instruction misses the cache and
\* calls the API again
C17_EmptyNotPersisted ==
    [][/\ (pc = "psc_api" /\ psc'.outcome \in {"success", "empty"} /\ IsBlank(psc'.response)) =>
             /\ psc'.outcome = "empty"
             /\ ret' = Returned(<<>>)
             /\ cache' = cache
       /\ (psc.after_empty /\ pc = "psc_lookup") =>
             /\ pc' = "psc_while"
             /\ psc'.api_calls = 0
       /\ (psc.after_empty /\ pc' = "idle") => psc'.api_calls >= 1]_vars

C17_Witness ==
    /\ pc = "idle"
    /\ calls = 2
    /\ psc.after_empty
    /\ psc.api_calls = 1
    /\ psc.response = <<" ">>
    /\ psc.outcome = "empty"
    /\ ret = Returned(<<>>)
    /\ cache[psc.key] = NoFile

(***************************************************************************)
(* Properties of process_single_chunk under faults, checked under          *)
(* SpecFault.                                                              *)
(***************************************************************************)
\* C11: whatever the cache read, the rate limiter, the API call, the reading
\* of the response and the cache write do (exceptions included), no exception
\* leaves process_single_chunk: a call that has ended has returned a text
C11_NeverRaisesPastBoundary ==
    /\ psc.outcome # "raised"
    /\ ret.kind # "raised"
    /\ (pc = "idle" /\ psc.outcome # "none") => ret = Returned(result)

C11_Witness ==
    /\ pc = "idle"
    /\ psc.read_fails = 1
    /\ psc.limiter_fails = 1
    /\ psc.fails = <<"quota", "other">>
    /\ psc.wrote = "dump_fails"
    /\ ret = Returned(<<"r">>)

(***************************************************************************)
(* Properties of the rate limiter.                                         *)
(***************************************************************************)
\* C12 as stated: two consecutive calls of _enforce_rate_limit on one parser
\* start at least rate_limit_delay apart
C12_StartToStartFloor ==
    limiter.n >= 2 => limiter.start - limiter.prev_start >= parser.rate_limit_delay

\* C12 as amended: two consecutive calls of _enforce_rate_limit on one parser
\* return at least rate_limit_delay apart; the second call starts no earlier
\* than the first returned (the starts may be any time apart, even 0) and it
\* returns at the later of its start and rate_limit_delay after the first
\* call's return
C12_ReturnToReturnFloor ==
    limiter.n >= 2 =>
        /\ limiter.returned - limiter.prev_returned >= parser.rate_limit_delay
        /\ limiter.start >= limiter.prev_returned
        /\ limiter.prev_returned >= limiter.prev_start
        /\ limiter.returned =
              IF limiter.start > limiter.prev_returned + parser.rate_limit_delay
              THEN limiter.start
              ELSE limiter.prev_returned + parser.rate_limit_delay

C12_Witness ==
    /\ calls = 4
    /\ limiter.n = 2
    /\ limiter.start - limiter.prev_start = 1
    /\ limiter.returned - limiter.prev_returned = 4
    /\ limiter.prev_returned - limiter.prev_start = 1

\* C13: _enforce_rate_limit returns no earlier than rate_limit_delay after its
\* previous return on the parser and leaves last_api_call at the time of its
\* return; the API call starts at that return, so two consecutive API calls
\* of a run (retries of one chunk or calls for different chunks) start at
\* least rate_limit_delay apart
C13_ApiCallsSpaced ==
    parser.alive =>
        /\ limiter.n >= 1 => parser.last_api_call = limiter.returned
        /\ limiter.n >= 2 =>
              limiter.returned - limiter.prev_returned >= parser.rate_limit_delay
        /\ pc = "psc_api" => (limiter.n >= 1 /\ now = limiter.returned)

C13_Witness ==
    /\ pc = "psc_api"
    /\ i = 2
    /\ run.hist[1].outcome = "success"
    /\ limiter.n = 2
    /\ limiter.start - limiter.prev_returned = 1
    /\ limiter.returned - limiter.prev_returned = 5

(***************************************************************************)
(* Properties of the cache, checked under SpecCache.                       *)
(***************************************************************************)
\* C14: _load_from_cache returns the stored result only for an entry whose
\* age (now - timestamp) is strictly below 24 hours; an entry of age 24 hours
\* or more is reported absent and its file stays; clear_old_cache(48) removes
\* no entry whose age is below 48 hours
C14_CacheExpiry ==
    [][/\ cacheop'.op = "load" =>
             LET file == cache[cacheop'.key]
             IN  /\ ret'.kind = "returned" =>
                        /\ file.st = "ok"
                        /\ now - file.timestamp < 24 * 3600
                        /\ ret'.value = file.result
                 /\ (file.st = "ok" /\ now - file.timestamp >= 24 * 3600) =>
                        /\ ret' = ReturnedNone
                        /\ cache' = cache
       /\ cacheop'.op = "clear" =>
             \A k \in Keys :
                 (cache[k].st = "ok" /\ cache'[k].st = "absent") =>
                     now - cache[k].timestamp >= cacheop'.hours * 3600]_<<calls, cacheop>>

\* C15 as stated: a lookup that finds a fresh entry returns the text of the
\* most recent _save_to_cache call for its key, and a save leaves the files of
\* the other keys alone
C15_RoundTrip ==
    [][/\ cacheop'.op = "load" =>
             LET k == cacheop'.key
             IN  (cacheop.asked[k].some /\ FreshEntry(cache[k], now)) =>
                     ret' = Returned(cacheop.asked[k].val)
       /\ cacheop'.op = "save" =>
             \A k \in Keys \ {cacheop'.key} : cache'[k] = cache[k]]_<<calls, cacheop>>

\* C15 as amended: a lookup that finds a fresh entry and reads it returns the
\* text of the most recent _save_to_cache call for its key whose write
\* succeeded (a failed write is swallowed: it leaves the earlier entry or a
\* truncated file); a successful save makes its text the fresh entry of its
\* key; a save leaves the files of the other keys alone
C15_RoundTripOfSuccessfulWrites ==
    [][/\ cacheop'.op = "load" =>
             LET k == cacheop'.key
             IN  /\ FreshEntry(cache[k], now) =>
                        (stored[k].some /\ ret' = Returned(stored[k].val))
                 /\ cache' = cache
       /\ cacheop'.op = "save" =>
             LET k == cacheop'.key
             IN  /\ \A j \in Keys \ {k} : cache'[j] = cache[j]
                 /\ stored'[k] # stored[k] \/ cache'[k] # cache[k] =>
                        \/ cache'[k].st = "corrupt"
                        \/ /\ FreshEntry(cache'[k], now)
                           /\ cache'[k].result = cacheop'.asked[k].val
                           /\ stored'[k] = cacheop'.asked[k]]_<<calls, cacheop>>

C15_Witness ==
    /\ calls = 3
    /\ cacheop.op = "load"
    /\ cacheop.asked[cacheop.key] = Some(<<"Y">>)
    /\ ret = Returned(<<"Y">>)
    /\ cache[cacheop.key].btime < cache[cacheop.key].timestamp
    /\ \A k \in Keys \ {cacheop.key} : cache[k] = NoFile

\* C22: clear_old_cache(h) removes exactly the files created more than h hours
\* ago, leaves the others as they were, and returns the number it removed
C22_SweepRemovesAndCounts ==
    [][cacheop'.op = "clear" =>
          /\ \A k \in Keys :
                 cache'[k] = IF cache[k].st # "absent"
                                 /\ cache[k].btime < now - cacheop'.hours * 3600
                              THEN NoFile
                              ELSE cache[k]
          /\ cacheop'.cleared = Cardinality({k \in Keys : cache'[k] # cache[k]})
          /\ ret' = Returned(<<ToString(cacheop'.cleared)>>)]_<<calls, cacheop>>

\* C23: a lookup of a damaged file (unreadable, not JSON, 'timestamp' or
\* 'result' missing or malformed) gives None, and process_single_chunk goes on
\* as on a miss
C23_CorruptionIsMiss ==
    [][/\ (pc = "idle" /\ pc' = "idle" /\ calls' # calls /\ cacheop'.op = "load"
              /\ cache[cacheop'.key].st \in DamagedKinds) => ret' = ReturnedNone
       /\ (pc = "psc_lookup" /\ cache[psc.key].st \in DamagedKinds) =>
             /\ pc' = "psc_while"
             /\ ret' = NoRet]_vars

\* C16: two calls of _get_cache_key give the same key exactly when they are
\* given the same (content, instruction) pair
C16_KeyIdentity ==
    Len(cacheop.keyed) = 2 =>
        LET a == cacheop.keyed[1]
            b == cacheop.keyed[2]
        IN  a.key = b.key <=> (a.content = b.content /\ a.description = b.description)

\* the concatenation of a sequence of texts, in order
RECURSIVE Concat(_)
Concat(texts) == IF texts = <<>> THEN <<>> ELSE Head(texts) \o Concat(Tail(texts))

\* C24: for every text t and max_length m >= 1, split_dom_content(t, m) returns
\* chunks that are each non-empty and at most m long, all but the last exactly
\* m long, whose concatenation in order is t; the empty text yields the empty
\* sequence.
C24_Segmentation ==
    scraped.op = "split" =>
        LET t == scraped.dom_content
            m == scraped.max_length
            chunks == scraped.chunks
        IN  /\ \A j \in 1..Len(chunks) :
                  /\ chunks[j] # <<>>
                  /\ Len(chunks[j]) <= m
                  /\ j < Len(chunks) => Len(chunks[j]) = m
            /\ Concat(chunks) = t
            /\ t = <<>> => chunks = <<>>

\* a text of five characters cut at two: two full chunks and a shorter last one
C24_Witness ==
    /\ scraped.op = "split"
    /\ Len(scraped.dom_content) = 5
    /\ scraped.max_length = 2
    /\ Len(scraped.chunks) = 3
    /\ Len(scraped.chunks[3]) = 1

\* the number of places where a token occurs in a text
RECURSIVE Count(_, _)
Count(s, token) ==
    IF s = <<>> THEN 0 ELSE (IF Head(s) = token THEN 1 ELSE 0) + Count(Tail(s), token)

\* part occurs in s as a run of consecutive tokens
OccursIn(s, part) ==
    \E k \in 0..(Len(s) - Len(part)) : SubSeq(s, k + 1, k + Len(part)) = part

\* C25: every img element of the body produces one image marker carrying its
\* alt text and its resolved source, every a element produces one hyperlink
\* marker carrying its text (or NO_TEXT) and its resolved href, and the marker
\* of an image inside a link is still present in the output text.
C25_MarkerPreservation ==
    (scraped.op = "extract" /\ ~scraped.html_content.empty
        /\ scraped.html_content.body # NoNode) =>
        LET body == scraped.html_content.body
            base_url == scraped.base_url
            images == find_all(body, "img")
            imaged == ReplaceImages(body, images, base_url)
            links == find_all(body, "a")
        IN  /\ Count(scraped.text, ImageToken) = Len(images)
            /\ \A k \in 1..Len(images) :
                  LET img == NodeAt(body, images[k])
                  IN  OccursIn(scraped.text, ImageMarker(img.alt, Resolve(img.src, base_url)))
            /\ Count(scraped.text, HyperlinkToken) = Len(links)
            /\ \A k \in 1..Len(links) :
                  LET link == NodeAt(imaged, links[k])
                  IN  OccursIn(scraped.text,
                               LinkMarker(LinkText(link), Resolve(link.href, base_url)))

\* a text the code builds to report a failure or a stop
IsFailureText(text) ==
    \/ text = <<>>
    \/ StartsWith(text, Cross)
    \/ StartsWith(text, "Error: ")
    \/ \E k \in 1..MaxChunks : text = StopNotice(k)

\* C26: the cache changes only in a step in which the extraction call for that
\* key returned a non-empty text, and every entry holds the trimmed, non-empty
\* text that call returned; failure markers, stop notices and empty results
\* are never written.
C26_CacheContent ==
    [][\A k \in Keys :
          /\ cache'[k] # cache[k] =>
                /\ pc = "psc_api"
                /\ k = psc.key
                /\ psc'.outcome = "success"
                /\ psc'.api_calls = psc.api_calls + 1
                /\ cache'[k].st = "ok" =>
                      /\ IsTrimOf(cache'[k].result, psc'.response)
                      /\ \/ ret' = Returned(cache'[k].result)
                         \/ pc' = "pwg_track" /\ result' = cache'[k].result
          /\ cache'[k].st = "ok" =>
                LET text == cache'[k].result
                IN  /\ text # <<>>
                    /\ ~IsSpace(text[1])
                    /\ ~IsSpace(text[Len(text)])
                    /\ ~IsFailureText(text)]_vars

\* the padded response was stored trimmed, and a later call for the other
\* chunk ended in the quota marker without touching the cache
C26_Witness ==
    /\ pc = "idle"
    /\ cache[_get_cache_key(<<"A">>, <<"q">>)].st = "ok"
    /\ cache[_get_cache_key(<<"A">>, <<"q">>)].result = <<"r">>
    /\ cache[_get_cache_key(<<"B">>, <<"q">>)].st = "absent"
    /\ psc.key = _get_cache_key(<<"B">>, <<"q">>)
    /\ ret = Returned(QuotaMarker)

\* C27: a run stops before its last chunk only at a chunk that ended in quota
\* exhaustion; a chunk whose result is a successful extraction or a cache hit
\* never triggers the stop notice and is never dropped as a failure, whatever
\* its text holds.
C27_StopOnlyOnQuota ==
    RunDone =>
        /\ run.stopped # 0 => QuotaExhaustedAt(run.stopped)
        /\ \A k \in 1..Len(run.hist) :
              run.hist[k].outcome \in {"success", "hit"} =>
                  /\ run.stopped # k
                  /\ IsNoInfo(run.hist[k].result) \/ HasSection(ret.value, k)

\* the positions whose chunk went through process_single_chunk and the counters
ProcessedPositions ==
    {k \in 1..Len(run.hist) : run.hist[k].outcome \notin {"none", "exception"}}

\* C28: at the end of a run, cache_hits is the number of processed chunks served
\* from the cache without an API call, api_calls_made is the number of
\* processed chunks for which the API was called at least once, and their sum
\* is the number of chunks processed.
C28_RunCounters ==
    RunDone =>
        /\ cache_hits = Cardinality({k \in ProcessedPositions : run.hist[k].api_calls = 0})
        /\ api_calls_made = Cardinality({k \in ProcessedPositions : run.hist[k].api_calls >= 1})
        /\ cache_hits + api_calls_made = Cardinality(ProcessedPositions)

\* a bound on the steps a call still has to take: the chunks not yet reached,
\* and within a chunk the attempts not yet used
ChunkRank ==
    CASE pc = "psc_lookup" -> 2 * (max_retries + 1) + 4
      [] pc = "psc_while" -> 2 * (max_retries + 1 - attempt) + 3
      [] pc = "psc_api" -> 2 * (max_retries + 1 - attempt) + 2
      [] pc \in {"pwg_track", "pwg_except"} -> 1
      [] OTHER -> 0

StepsLeft ==
    IF pc = "idle" THEN 0
    ELSE IF pc = "pwg_summary" THEN 1
    ELSE ChunkRank + (IF caller = "run"
                      THEN (Len(dom_chunks) - i) * (2 * (DefaultMaxRetries + 1) + 5) + 2
                      ELSE 0)

\* C29: whatever the API outcomes are, every step of a call that has begun
\* lowers a bound on the steps that are left (no outcome sequence keeps the
\* retry loop or the chunk loop running), and when every sleep and API call
\* returns, each call of process_single_chunk and of parse_with_gemini
\* eventually returns.
C29_Termination ==
    /\ [][pc # "idle" => (StepsLeft' < StepsLeft /\ StepsLeft' >= 0)]_vars
    /\ [](pc # "idle" => <>(pc = "idle"))

\* a direct call with the largest retry budget used every attempt on quota
\* errors and has returned
C29_Witness ==
    /\ pc = "idle"
    /\ caller = "direct"
    /\ max_retries = MaxRetriesArg
    /\ psc.api_calls = MaxRetriesArg + 1
    /\ ret = Returned(QuotaMarker)

====
